---- MODULE Spec2Model ----
(***************************************************************************)
(* Member-list pagination of the api package (src/api/member.go):         *)
(* Client.Members, Client.MembersAfter and the single-page primitive       *)
(* Client.membersAfter, run against a guild whose member list is fixed     *)
(* for the duration of one call.                                           *)
(*                                                                         *)
(* A member record is modelled by its User.ID, the only field the          *)
(* paginator reads.  The endpoint answers a page request (after, limit)    *)
(* either with an error or with the `limit` smallest members whose id is   *)
(* greater than `after`, in ascending order, as the endpoint documents.    *)
(*                                                                         *)
(* hardLimit is 1000 in the source (member.go:40, and the literal of       *)
(* membersAfter at member.go:75-76).  The model runs with a small page     *)
(* size so that every limit and every member set up to several pages can   *)
(* be enumerated; all formulas are stated in terms of hardLimit.           *)
(*                                                                         *)
(* Client.Ban is modelled next to it, as a call of its own (BanSpec).  An  *)
(* optional field (option.Uint, option.String: a pointer) is <<>> when it  *)
(* is nil and <<v>> when it points to v.                                   *)
(***************************************************************************)
EXTENDS Integers, Sequences, FiniteSets

\* Page size of the endpoint (1000 in the source).
hardLimit == 3
\* Member ids are drawn from 1..MaxId; the guild is any subset.
MaxId == 10
\* Callers pass limit in 0..MaxLimit.
MaxLimit == 10
\* Callers pass after in 0..MaxAfter.
MaxAfter == 1
\* The accumulator is followed up to this length.
MaxMems == 13
\* The request/page history records the first MaxHist round trips.
MaxHist == 6
\* Callers of Ban pass a DeleteDays of nil or of 0..MaxDays.
MaxDays == 9
\* Guild and user ids passed to Ban are drawn from 1..MaxBanId.
MaxBanId == 2
\* if *data.DeleteDays > 7 { *data.DeleteDays = 7 }
MaxDeleteDays == 7

VARIABLES
    source,     \* the guild: set of member ids held by the server
    pc,         \* "idle", "loop" (at the for condition), "wait" (request in flight), "done"
    after,      \* MembersAfter: parameter / cursor
    limit,      \* MembersAfter: parameter, counted down
    unlimited,  \* MembersAfter: unlimited := limit == 0
    mems,       \* MembersAfter: accumulated result
    req,        \* query parameters of the request in flight: [after, limit]
    ret,        \* returned slice
    err,        \* returned error (TRUE: non-nil)
    argAfter,   \* history: the after argument of the call
    argLimit,   \* history: the limit argument of the call
    sent,       \* history: requests issued, in order (first MaxHist)
    pages,      \* history: pages received, in order (first MaxHist)
    banPc,      \* Ban: "idle", "put" (PUT in flight), "panic" (nil dereference), "done"
    banArg,     \* Ban: the arguments [guildID, userID, data] of the call
    banReq,     \* Ban: the PUT issued: [guildID, userID, query], <<>> before it
    banErr      \* Ban: returned error (TRUE: non-nil)

banVars == <<banPc, banArg, banReq, banErr>>

vars == <<source, pc, after, limit, unlimited, mems, req, ret, err,
          argAfter, argLimit, sent, pages, banPc, banArg, banReq, banErr>>

NoReq == [after |-> 0, limit |-> 0]

Min(a, b) == IF a < b THEN a ELSE b

\* The elements of a finite set of ids, smallest first.
Ascending(S) ==
    [i \in 1..Cardinality(S) |->
        CHOOSE x \in S : Cardinality({y \in S : y < x}) = i - 1]

Take(s, k) == SubSeq(s, 1, Min(k, Len(s)))

Last(s) == s[Len(s)]

StrictlyAscending(s) == \A i \in 1..(Len(s) - 1) : s[i] < s[i + 1]

CeilDiv(a, b) == (a + b - 1) \div b

----------------------------------------------------------------------------
(* The endpoint GET /guilds/{id}/members?after=&limit=                     *)

\* A limit of 0 is sent as is and leaves the size to the server's default.
ServerCount(n) == IF n = 0 THEN 1 ELSE n

Endpoint(src, a, n) ==
    Take(Ascending({m \in src : m > a}), ServerCount(n))

----------------------------------------------------------------------------
(* Client.membersAfter: the limit it puts into the query.                  *)

membersAfter(n) ==
    CASE n = 0 -> 0
      [] n > hardLimit -> hardLimit
      [] OTHER -> n

----------------------------------------------------------------------------
(* Client.MembersAfter, piece by piece.                                     *)

\* Variant: the loop condition lets a consumed limit through.
LoopCond_GE(lim, unl) == lim >= 0 \/ unl

\* for ...; limit > 0 || unlimited; ...
LoopCond(lim, unl) == lim > 0 \/ unl

\* Variant: the page size is not cut down to the remaining limit.
FetchSize_NoClamp(lim) == hardLimit

\* fetch := uint(hardLimit); if limit > 0 { if fetch > limit { fetch = limit } ... }
FetchSize(lim) ==
    IF lim > 0 /\ hardLimit > lim THEN lim ELSE hardLimit

\* limit -= fetch
Countdown(lim, fetch) == lim - fetch

\* Variant: the limit is counted down by one per request.
LimitAfter_ByOne(lim) ==
    IF lim > 0 THEN Countdown(lim, 1) ELSE lim

\* if limit > 0 { ...; limit -= fetch }
LimitAfter(lim) ==
    IF lim > 0 THEN Countdown(lim, FetchSize(lim)) ELSE lim

\* if len(mems) < hardLimit { break }
Exhausted(ms) == Len(ms) < hardLimit

\* after = mems[hardLimit-1].User.ID   (0-based in the source)
NextAfter(ms) == ms[hardLimit]

\* Variant: the partial result is dropped on error.
OnError_Nil(ms) == <<>>

\* return mems, err
OnError(ms) == ms

----------------------------------------------------------------------------

\* Everything but the guild, before the call.
Idle ==
    /\ pc = "idle"
    /\ after = 0
    /\ limit = 0
    /\ unlimited = FALSE
    /\ mems = <<>>
    /\ req = NoReq
    /\ ret = <<>>
    /\ err = FALSE
    /\ argAfter = 0
    /\ argLimit = 0
    /\ sent = <<>>
    /\ pages = <<>>

\* Ban has not been called.
BanIdle ==
    /\ banPc = "idle"
    /\ banArg = <<>>
    /\ banReq = <<>>
    /\ banErr = FALSE

\* Any guild with member ids in 1..MaxId.
Init ==
    /\ source \in SUBSET (1..MaxId)
    /\ Idle
    /\ BanIdle

\* The guilds {1..n}: one guild of every size.
LiveInit ==
    /\ source \in {1..n : n \in 0..MaxId}
    /\ Idle
    /\ BanIdle

Enter(a, l) ==
    /\ pc = "idle"
    /\ pc' = "loop"
    /\ after' = a
    /\ limit' = l
    /\ unlimited' = (l = 0)
    /\ mems' = <<>>
    /\ argAfter' = a
    /\ argLimit' = l
    /\ UNCHANGED <<source, req, ret, err, sent, pages>>
    /\ UNCHANGED banVars

\* c.MembersAfter(guildID, after, limit)
\* (after = 0 is the call Members makes)
MembersAfter ==
    \E a \in 1..MaxAfter, l \in 0..MaxLimit : Enter(a, l)

\* c.Members(guildID, limit) == c.MembersAfter(guildID, 0, limit)
Members ==
    \E l \in 0..MaxLimit : Enter(0, l)

\* Loop condition true: size the page, count the limit down, issue the request.
SendPage ==
    /\ pc = "loop"
    /\ LoopCond(limit, unlimited)
    /\ Len(mems) + hardLimit <= MaxMems
    /\ LET fetch == FetchSize(limit)
           q == [after |-> after, limit |-> membersAfter(fetch)]
       IN /\ limit' = LimitAfter(limit)
          /\ req' = q
          /\ sent' = IF Len(sent) < MaxHist THEN Append(sent, q) ELSE sent
    /\ pc' = "wait"
    /\ UNCHANGED <<source, after, unlimited, mems, ret, err, argAfter, argLimit, pages>>
    /\ UNCHANGED banVars

\* The request succeeded: append, then break or move the cursor.
ReplyOK ==
    /\ pc = "wait"
    /\ LET m == Endpoint(source, req.after, req.limit)
           ms == mems \o m
       IN /\ mems' = ms
          /\ pages' = IF Len(pages) < MaxHist THEN Append(pages, m) ELSE pages
          /\ IF Exhausted(ms)
             THEN /\ pc' = "done"
                  /\ ret' = ms
                  /\ after' = after
             ELSE /\ pc' = "loop"
                  /\ ret' = ret
                  /\ after' = NextAfter(ms)
    /\ req' = NoReq
    /\ UNCHANGED <<source, limit, unlimited, err, argAfter, argLimit, sent>>
    /\ UNCHANGED banVars

\* The request failed: return what has been accumulated, with the error.
ReplyErr ==
    /\ pc = "wait"
    /\ pc' = "done"
    /\ ret' = OnError(mems)
    /\ err' = TRUE
    /\ req' = NoReq
    /\ UNCHANGED <<source, after, limit, unlimited, mems, argAfter, argLimit, sent, pages>>
    /\ UNCHANGED banVars

\* Loop condition false: return mems, nil.
Return ==
    /\ pc = "loop"
    /\ ~LoopCond(limit, unlimited)
    /\ pc' = "done"
    /\ ret' = mems
    /\ UNCHANGED <<source, after, limit, unlimited, mems, req, err, argAfter, argLimit, sent, pages>>
    /\ UNCHANGED banVars

Next ==
    \/ MembersAfter
    \/ Members
    \/ SendPage
    \/ ReplyOK
    \/ ReplyErr
    \/ Return

Spec == Init /\ [][Next]_vars

\* The call is sequential, blocking code: whenever it can take a step it does.
LiveSpec == LiveInit /\ [][Next]_vars /\ WF_vars(Next)

----------------------------------------------------------------------------
(* Client.Ban                                                              *)

\* option.Uint values a caller can put into BanData.DeleteDays.
OptionUint == {<<>>} \cup {<<d>> : d \in 0..MaxDays}

\* option.String values a caller can put into BanData.Reason.
OptionString == {<<>>, <<"">>, <<"spam">>}

\* type BanData struct { DeleteDays option.Uint; Reason option.String }
BanData == [DeleteDays : OptionUint, Reason : OptionString]

\* *data.DeleteDays faults when the pointer is nil.
Faults(data) == data.DeleteDays = <<>>

\* if *data.DeleteDays > 7 { *data.DeleteDays = 7 }   (pointer not nil)
Clamp(data) ==
    IF data.DeleteDays[1] > MaxDeleteDays
    THEN [data EXCEPT !.DeleteDays = <<MaxDeleteDays>>]
    ELSE data

\* httputil.WithSchema(c, data): both fields are omitempty, a nil pointer
\* is left out of the query (<<>>), any other is sent with its value.
WithSchema(data) ==
    [delete_message_days |-> data.DeleteDays, reason |-> data.Reason]

PaginationIdle == UNCHANGED <<source, pc, after, limit, unlimited, mems, req,
                              ret, err, argAfter, argLimit, sent, pages>>

\* c.Ban(guildID, userID, data) up to the PUT, or to the fault before it.
Ban ==
    /\ banPc = "idle"
    /\ \E g \in 1..MaxBanId, u \in 1..MaxBanId, data \in BanData :
          /\ banArg' = [guildID |-> g, userID |-> u, data |-> data]
          /\ IF Faults(data)
             THEN /\ banPc' = "panic"
                  /\ banReq' = banReq
             ELSE /\ banPc' = "put"
                  /\ banReq' = [guildID |-> g, userID |-> u,
                                query |-> WithSchema(Clamp(data))]
    /\ UNCHANGED banErr
    /\ PaginationIdle

\* c.FastRequest returned nil.
BanOK ==
    /\ banPc = "put"
    /\ banPc' = "done"
    /\ UNCHANGED <<banArg, banReq, banErr>>
    /\ PaginationIdle

\* c.FastRequest returned an error, which Ban returns.
BanFail ==
    /\ banPc = "put"
    /\ banPc' = "done"
    /\ banErr' = TRUE
    /\ UNCHANGED <<banArg, banReq>>
    /\ PaginationIdle

BanNext ==
    \/ Ban
    \/ BanOK
    \/ BanFail

\* A client that is asked for one Ban; no member listing runs.
BanInit ==
    /\ source = {}
    /\ Idle
    /\ BanIdle

BanSpec == BanInit /\ [][BanNext]_vars

TypeOK ==
    /\ banPc \in {"idle", "put", "panic", "done"}
    /\ banErr \in BOOLEAN
    /\ source \subseteq 1..MaxId
    /\ pc \in {"idle", "loop", "wait", "done"}
    /\ after \in 0..MaxId
    /\ limit \in 0..MaxLimit
    /\ unlimited \in BOOLEAN
    /\ Len(mems) <= MaxMems
    /\ err \in BOOLEAN

----------------------------------------------------------------------------
(* Vocabulary of the properties.                                           *)

\* The members the call is asked about: those after the starting cursor.
Wanted == Ascending({m \in source : m > argAfter})

\* The accumulator has outgrown what the model follows.
OutOfModel == pc = "loop" /\ Len(mems) + hardLimit > MaxMems

\* C1: a call with limit = 0 against a finite guild terminates, whatever the
\* guild's size: once in the loop it eventually returns (runs whose
\* accumulator outgrows the model are not held against the claim).
C1_UnlimitedTerminates ==
    (pc = "loop" /\ unlimited) ~> (pc = "done" \/ OutOfModel)

\* The pages received, one after the other.
RECURSIVE Flatten(_)
Flatten(ps) == IF ps = <<>> THEN <<>> ELSE Head(ps) \o Flatten(Tail(ps))

\* The sizes asked for by the first n requests, summed.
RECURSIVE Asked(_)
Asked(n) == IF n = 0 THEN 0 ELSE Asked(n - 1) + sent[n].limit

\* The history still records every round trip.
Recording == Len(sent) < MaxHist

----------------------------------------------------------------------------
\* C2: with limit > 0 the accumulated sequence is never longer than the
\* limit the caller asked for (the endpoint returns at most the size asked).
C2_AccumulatedWithinLimit ==
    argLimit > 0 => Len(mems) <= argLimit /\ Len(ret) <= argLimit

\* A call over several pages that filled its limit exactly.
C2_Witness ==
    /\ pc = "done"
    /\ ~err
    /\ argLimit > hardLimit
    /\ Len(ret) = argLimit

\* C3: a failed page fetch ends the call at once: the failing request is the
\* last one, nothing is in flight, and the call returns the error together
\* with exactly the records of the pages that succeeded before it.
C3_ErrorReturnsPartial ==
    err => /\ pc = "done"
           /\ req = NoReq
           /\ ret = mems
           /\ Recording => /\ Len(sent) = Len(pages) + 1
                           /\ ret = Flatten(pages)

\* The second request failed after a full first page: the page is returned.
C3_Witness ==
    /\ err
    /\ Len(sent) = 2
    /\ Len(pages) = 1
    /\ Len(ret) = hardLimit

\* C4: the accumulated result is strictly ascending by id (so free of
\* duplicates) in every state, for every guild and every limit.
C4_StrictlyAscending ==
    StrictlyAscending(mems)

\* C5: a bounded call over a guild holding at least `limit` members after
\* the cursor returns exactly the `limit` smallest of them.
C5_BoundedReturnsSmallest ==
    (pc = "done" /\ ~err /\ argLimit > 0 /\ Len(Wanted) >= argLimit)
        => ret = Take(Wanted, argLimit)

C7_ExactMultiple ==
    (unlimited /\ Len(Wanted) > 0 /\ Len(Wanted) % hardLimit = 0)
        => /\ Len(sent) <= Len(Wanted) \div hardLimit + 1
           /\ (pc = "done" /\ ~err) => ret = Wanted

\* C8: the cursor of every request after the first is the id of the last
\* record of the page received just before it (a page without records
\* names no cursor and is not held against the claim).
C8_CursorFollowsLastPage ==
    \A i \in 2..Len(sent) :
        pages[i - 1] # <<>> => sent[i].after = Last(pages[i - 1])

\* C9: once a page came back with fewer than hardLimit records, no further
\* request is made.
C9_ShortPageStops ==
    \A i \in 1..Len(pages) :
        Len(pages[i]) < hardLimit => Len(sent) <= i

\* C10: every request asks for min(hardLimit, limit - sizes asked so far)
\* when the limit is bounded and for hardLimit when it is 0, so always for
\* 1..hardLimit records; a limit of at most hardLimit gives one request of
\* that size.
C10_FetchSizes ==
    /\ \A i \in 1..Len(sent) :
          /\ sent[i].limit = IF argLimit = 0 THEN hardLimit
                             ELSE Min(hardLimit, argLimit - Asked(i - 1))
          /\ sent[i].limit \in 1..hardLimit
    /\ (argLimit \in 1..hardLimit /\ pc \in {"wait", "done"})
          => sent = <<[after |-> argAfter, limit |-> argLimit]>>

\* A bounded call of three or more requests whose last one asked for the
\* remainder.
C10_Witness ==
    /\ pc = "done"
    /\ ~err
    /\ Len(sent) >= 3
    /\ Last(sent).limit < hardLimit
    /\ Asked(Len(sent)) = argLimit

----------------------------------------------------------------------------
\* C11: Ban reaches its PUT for every BanData value, a nil DeleteDays
\* included, without faulting, and the delete_message_days it sends is
\* left out or at most 7.
C11_BanReachesPut ==
    /\ banPc # "panic"
    /\ banPc \in {"put", "done"} =>
          \/ banReq.query.delete_message_days = <<>>
          \/ banReq.query.delete_message_days[1] <= MaxDeleteDays

====
